---- MODULE Spec2Model ----
(***************************************************************************)
(* Model of the password-strength evaluator of src/app.py:                 *)
(* calculate_entropy and validate_password.                                *)
(*                                                                         *)
(* A string is a sequence of Unicode code points.  validate_password is    *)
(* run rule by rule: pc names the rule about to run, errors, warnings and  *)
(* score are the function's locals, verdict is the returned dictionary.    *)
(* An entropy value is kept in microbits (bits * 10^6, rounded down).      *)
(***************************************************************************)
EXTENDS Integers, Sequences, FiniteSets, TLC

VARIABLES password, pc, errors, warnings, score, entropy, verdict

vars == <<password, pc, errors, warnings, score, entropy, verdict>>

Max(a, b) == IF a >= b THEN a ELSE b
Min(a, b) == IF a <= b THEN a ELSE b

(***************************************************************************)
(* Static data                                                             *)
(***************************************************************************)
COMMON_PASSWORDS ==
    {
      <<112, 97, 115, 115, 119, 111, 114, 100>>,               \* password
      <<112, 97, 115, 115, 119, 111, 114, 100, 49>>,           \* password1
      <<49, 50, 51, 52, 53, 54>>,                              \* 123456
      <<49, 50, 51, 52, 53, 54, 55, 56>>,                      \* 12345678
      <<113, 119, 101, 114, 116, 121>>,                        \* qwerty
      <<97, 98, 99, 49, 50, 51>>,                              \* abc123
      <<109, 111, 110, 107, 101, 121>>,                        \* monkey
      <<49, 50, 51, 52, 53, 54, 55>>,                          \* 1234567
      <<108, 101, 116, 109, 101, 105, 110>>,                   \* letmein
      <<116, 114, 117, 115, 116, 110, 111, 49>>,               \* trustno1
      <<100, 114, 97, 103, 111, 110>>,                         \* dragon
      <<98, 97, 115, 101, 98, 97, 108, 108>>,                  \* baseball
      <<105, 108, 111, 118, 101, 121, 111, 117>>,              \* iloveyou
      <<109, 97, 115, 116, 101, 114>>,                         \* master
      <<115, 117, 110, 115, 104, 105, 110, 101>>,              \* sunshine
      <<97, 115, 104, 108, 101, 121>>,                         \* ashley
      <<98, 97, 105, 108, 101, 121>>,                          \* bailey
      <<112, 97, 115, 115, 119, 48, 114, 100>>,                \* passw0rd
      <<115, 104, 97, 100, 111, 119>>,                         \* shadow
      <<49, 50, 51, 49, 50, 51>>,                              \* 123123
      <<54, 53, 52, 51, 50, 49>>,                              \* 654321
      <<115, 117, 112, 101, 114, 109, 97, 110>>,               \* superman
      <<113, 97, 122, 119, 115, 120>>,                         \* qazwsx
      <<109, 105, 99, 104, 97, 101, 108>>,                     \* michael
      <<102, 111, 111, 116, 98, 97, 108, 108>>,                \* football
      <<112, 97, 115, 115, 119, 111, 114, 100, 49, 50, 51>>,   \* password123
      <<97, 100, 109, 105, 110>>,                              \* admin
      <<119, 101, 108, 99, 111, 109, 101>>,                    \* welcome
      <<108, 111, 103, 105, 110>>,                             \* login
      <<104, 101, 108, 108, 111>>,                             \* hello
      <<99, 104, 97, 114, 108, 105, 101>>,                     \* charlie
      <<100, 111, 110, 97, 108, 100>>,                         \* donald
      <<112, 97, 115, 115, 119, 111, 114, 100, 50>>,           \* password2
      <<113, 119, 101, 114, 116, 121, 49, 50, 51>>,            \* qwerty123
      <<49, 50, 51, 113, 119, 101>>                            \* 123qwe
    }

KEYBOARD_WALKS ==
    <<
       <<113, 119, 101, 114, 116, 121>>,                       \* qwerty
       <<97, 115, 100, 102, 103, 104>>,                        \* asdfgh
       <<122, 120, 99, 118, 98, 110>>,                         \* zxcvbn
       <<113, 119, 101, 114, 116, 121, 117>>,                  \* qwertyu
       <<97, 115, 100, 102, 103, 104, 106>>,                   \* asdfghj
       <<122, 120, 99, 118, 98, 110, 109>>,                    \* zxcvbnm
       <<49, 50, 51, 52, 53, 54, 55>>,                         \* 1234567
       <<97, 98, 99, 100, 101, 102, 103>>,                     \* abcdefg
       <<55, 54, 53, 52, 51, 50, 49>>,                         \* 7654321
       <<103, 102, 101, 100, 99, 98, 97>>,                     \* gfedcba
       <<97, 97, 97, 97, 97, 97, 97>>,                         \* aaaaaaa
       <<49, 49, 49, 49, 49, 49, 49>>                          \* 1111111
    >>

(***************************************************************************)
(* Character classes (sets of code points), as the regular expressions and *)
(* str methods of the code decide them.  The patterns are str patterns, so *)
(* \d and \s are the Unicode classes, and str.isdigit and str.lower are    *)
(* the Unicode methods; of their non-ASCII members only those listed here  *)
(* are modelled.                                                           *)
(***************************************************************************)
\* [a-z]
Lowercase == 97..122

\* [A-Z]
Uppercase == 65..90

\* \d : ASCII 0-9 and every other Unicode decimal digit (here U+0660..U+0669)
Digits == (48..57) \cup (1632..1641)

\* [!@#$%^&*(),.?":{}|<>_\-+=\[\]\\;'/`~] : the 32 ASCII punctuation marks
Specials == (33..47) \cup (58..64) \cup (91..96) \cup (123..126)

\* \s : [ \t\n\r\f\v], the separators U+001C..U+001F, U+0085, U+00A0
Whitespace == (9..13) \cup (28..32) \cup {133, 160}

\* str.isdigit() : the decimal digits and the superscript digits
StrIsDigit(c) == c \in (48..57) \cup (1632..1641) \cup {178, 179, 185}

\* re.search(<class>, s), the class given as its set of code points
Search(class, s) == \E i \in 1..Len(s) : s[i] \in class

\* len(re.findall(<class>, s))
FindAllCount(class, s) == Cardinality({i \in 1..Len(s) : s[i] \in class})

\* str.lower() : A-Z and the Latin-1 capitals map to their small letters
LowerChar(c) ==
    IF c \in 65..90 \/ (c \in 192..222 /\ c # 215) THEN c + 32 ELSE c

Lower(s) == [i \in 1..Len(s) |-> LowerChar(s[i])]

\* s[::-1]
Reverse(s) == [i \in 1..Len(s) |-> s[Len(s) + 1 - i]]

\* sub in s
In(sub, s) ==
    \E i \in 0..(Len(s) - Len(sub)) :
        \A j \in 1..Len(sub) : s[i + j] = sub[j]

(***************************************************************************)
(* calculate_entropy                                                       *)
(***************************************************************************)
Charset(s) ==
      (IF Search(Lowercase, s) THEN 26 ELSE 0)
    + (IF Search(Uppercase, s) THEN 26 ELSE 0)
    + (IF Search(Digits, s) THEN 10 ELSE 0)
    + (IF Search(Specials, s) THEN 32 ELSE 0)

\* math.log2(charset) * 10^6 rounded down, for the sums Charset can take
Log2Micro(charset) ==
    CASE charset = 10 -> 3321928
      [] charset = 26 -> 4700439
      [] charset = 32 -> 5000000
      [] charset = 36 -> 5169925
      [] charset = 42 -> 5392317
      [] charset = 52 -> 5700439
      [] charset = 58 -> 5857980
      [] charset = 62 -> 5954196
      [] charset = 68 -> 6087462
      [] charset = 84 -> 6392317
      [] charset = 94 -> 6554588

calculate_entropy(s) ==
    IF Charset(s) = 0 THEN 0 ELSE Len(s) * Log2Micro(Charset(s))

\* an entropy in bits, as microbits, for the threshold comparisons
Bits(n) == n * 1000000

\* round(entropy, 2) and f"{entropy:.1f}" : hundredths and tenths of a bit
\* (from the microbits, so exact up to Len(s) * 10^-6 bits)
Round2(e) == (e + 5000) \div 10000
Round1(e) == (e + 50000) \div 100000

(***************************************************************************)
(* Messages.  A message is a tuple: its text, then its formatted argument. *)
(***************************************************************************)
ErrShort     == <<"Must be at least 12 characters long.">>
ErrLong      == <<"Must not exceed 128 characters.">>
ErrUpper     == <<"Must contain at least one uppercase letter (A-Z).">>
ErrLower     == <<"Must contain at least one lowercase letter (a-z).">>
ErrDigit     == <<"Must contain at least one digit (0-9).">>
ErrSpecial   == <<"Must contain at least one special character (!@#$%^&* etc.).">>
ErrCommon    == <<"Password is too common. Please choose a more unique password.">>
ErrRepeat    == <<"Must not contain 3 or more repeated consecutive characters (e.g. 'aaa', '111').">>
ErrSpace     == <<"Must not contain whitespace characters.">>
ErrClasses   == <<"Must use at least 3 different character classes.">>
ErrEntropy(e) == <<"Password entropy too low ({entropy:.1f} bits). Add more variety.", Round1(e)>>
WarnSeq      == <<"Avoid sequential characters (e.g. 'abc', '123', 'cba').">>
WarnWalk     == <<"Avoid keyboard walk patterns (e.g. 'qwerty', 'asdf').">>
WarnEdge     == <<"Avoid starting or ending with a digit for better strength.">>

(***************************************************************************)
(* Inputs: up to MaxParts fragments in a row, then a filler repeated up to *)
(* a target length (no filler when the fragments already reach it).        *)
(***************************************************************************)
MaxParts == 2

Fragments ==
    {
      <<113, 119, 101, 114, 116, 121, 117>>,                   \* qwertyu
      <<121, 116, 114, 101, 119, 113>>,                        \* ytrewq
      <<81, 87, 69, 82, 84, 89>>,                              \* QWERTY
      <<97, 98, 99, 100, 101, 102, 103>>,                      \* abcdefg
      <<97, 97, 97, 97>>,                                      \* aaaa
      <<51, 50, 49>>,                                          \* 321
      <<49>>,                                                  \* 1
      <<33>>,                                                  \* !
      <<32>>,                                                  \* (space)
      <<1632>>,                                                \* U+0660 ARABIC-INDIC DIGIT ZERO
      <<233>>,                                                 \* U+00E9 (e acute)
      <<112, 97, 115, 115, 119, 111, 114, 100>>                \* password
    }

Fillers ==
    { <<109, 84, 52, 35>>,                                     \* mT4#
      <<109, 107>> }                                           \* mk

Targets == {0, 11, 12, 13, 16, 128, 129}

RECURSIVE Concat(_)
Concat(parts) ==
    IF parts = <<>> THEN <<>> ELSE Head(parts) \o Concat(Tail(parts))

Pad(core, fill, n) ==
    IF Len(core) >= n
    THEN core
    ELSE core \o [i \in 1..(n - Len(core)) |-> fill[((i - 1) % Len(fill)) + 1]]

Inputs ==
    { Pad(Concat(parts), fill, n) :
        parts \in UNION { [1..k -> Fragments] : k \in 0..MaxParts },
        fill \in Fillers, n \in Targets }

(***************************************************************************)
(* validate_password                                                       *)
(***************************************************************************)
Init ==
    /\ password \in Inputs
    /\ pc = "r1"
    /\ errors = <<>>
    /\ warnings = <<>>
    /\ score = 0
    /\ entropy = 0
    /\ verdict = "None"

\* Rule1 with the fault "<= 12" for "< 12"
Rule1OffByOne ==
    /\ pc = "r1"
    /\ errors' = IF Len(password) <= 12 THEN Append(errors, ErrShort) ELSE errors
    /\ score' = IF Len(password) <= 12 THEN score
                ELSE IF Len(password) >= 16 THEN score + 20
                ELSE score + 10
    /\ pc' = "r2"
    /\ UNCHANGED <<password, warnings, entropy, verdict>>

\* 1. Minimum length
Rule1 ==
    /\ pc = "r1"
    /\ errors' = IF Len(password) < 12 THEN Append(errors, ErrShort) ELSE errors
    /\ score' = IF Len(password) < 12 THEN score
                ELSE IF Len(password) >= 16 THEN score + 20
                ELSE score + 10
    /\ pc' = "r2"
    /\ UNCHANGED <<password, warnings, entropy, verdict>>

\* 2. Maximum length guard
Rule2 ==
    /\ pc = "r2"
    /\ errors' = IF Len(password) > 128 THEN Append(errors, ErrLong) ELSE errors
    /\ pc' = "r3"
    /\ UNCHANGED <<password, warnings, score, entropy, verdict>>

\* 3. Uppercase letter
Rule3 ==
    /\ pc = "r3"
    /\ errors' = IF ~Search(Uppercase, password) THEN Append(errors, ErrUpper) ELSE errors
    /\ score' = IF ~Search(Uppercase, password) THEN score ELSE score + 10
    /\ pc' = "r4"
    /\ UNCHANGED <<password, warnings, entropy, verdict>>

\* 4. Lowercase letter
Rule4 ==
    /\ pc = "r4"
    /\ errors' = IF ~Search(Lowercase, password) THEN Append(errors, ErrLower) ELSE errors
    /\ score' = IF ~Search(Lowercase, password) THEN score ELSE score + 10
    /\ pc' = "r5"
    /\ UNCHANGED <<password, warnings, entropy, verdict>>

\* 5. Digit
Rule5 ==
    /\ pc = "r5"
    /\ errors' = IF ~Search(Digits, password) THEN Append(errors, ErrDigit) ELSE errors
    /\ score' = IF ~Search(Digits, password) THEN score ELSE score + 10
    /\ pc' = "r6"
    /\ UNCHANGED <<password, warnings, entropy, verdict>>

\* 6. Special character
Rule6 ==
    /\ pc = "r6"
    /\ errors' = IF ~Search(Specials, password) THEN Append(errors, ErrSpecial) ELSE errors
    /\ score' = IF ~Search(Specials, password) THEN score ELSE score + 15
    /\ pc' = "r7"
    /\ UNCHANGED <<password, warnings, entropy, verdict>>

\* 7. Multiple special characters bonus
Rule7 ==
    /\ pc = "r7"
    /\ score' = IF FindAllCount(Specials, password) >= 2 THEN score + 5 ELSE score
    /\ pc' = "r8"
    /\ UNCHANGED <<password, errors, warnings, entropy, verdict>>

\* 8. Common passwords blacklist
Rule8 ==
    /\ pc = "r8"
    /\ errors' = IF Lower(password) \in COMMON_PASSWORDS
                 THEN Append(errors, ErrCommon) ELSE errors
    /\ pc' = "r9"
    /\ UNCHANGED <<password, warnings, score, entropy, verdict>>

\* re.search(r"(.)\1{2,}", s) : "." matches every character but the newline
HasRepeat(s) ==
    \E i \in 1..(Len(s) - 2) : s[i] # 10 /\ s[i + 1] = s[i] /\ s[i + 2] = s[i]

\* 9. Repeating characters
Rule9 ==
    /\ pc = "r9"
    /\ errors' = IF HasRepeat(password) THEN Append(errors, ErrRepeat) ELSE errors
    /\ score' = IF HasRepeat(password) THEN score ELSE score + 5
    /\ pc' = "r10"
    /\ UNCHANGED <<password, warnings, entropy, verdict>>

has_sequential(s, step) ==
    \E i \in 1..(Len(s) - 2) :
        s[i + 1] - s[i] = step /\ s[i + 2] - s[i + 1] = step

\* 10. Sequential characters
Rule10 ==
    /\ pc = "r10"
    /\ IF has_sequential(Lower(password), 1) \/ has_sequential(password, -1)
       THEN /\ warnings' = Append(warnings, WarnSeq)
            /\ score' = Max(0, score - 5)
       ELSE UNCHANGED <<warnings, score>>
    /\ pc' = "r11"
    /\ UNCHANGED <<password, errors, entropy, verdict>>

\* the loop over KEYBOARD_WALKS from entry i on; the pair <<warnings, score>>
\* it leaves
RECURSIVE WalkLoop(_, _, _, _)
WalkLoop(i, p_lower, w, sc) ==
    IF i > Len(KEYBOARD_WALKS) THEN <<w, sc>>
    ELSE IF In(KEYBOARD_WALKS[i], p_lower) \/ In(Reverse(KEYBOARD_WALKS[i]), p_lower)
         THEN <<Append(w, WarnWalk), Max(0, sc - 10)>>      \* break
         ELSE WalkLoop(i + 1, p_lower, w, sc)

\* the loop with the fault of a missing break
RECURSIVE WalkLoopNoBreak(_, _, _, _)
WalkLoopNoBreak(i, p_lower, w, sc) ==
    IF i > Len(KEYBOARD_WALKS) THEN <<w, sc>>
    ELSE IF In(KEYBOARD_WALKS[i], p_lower) \/ In(Reverse(KEYBOARD_WALKS[i]), p_lower)
         THEN WalkLoopNoBreak(i + 1, p_lower, Append(w, WarnWalk), Max(0, sc - 10))
         ELSE WalkLoopNoBreak(i + 1, p_lower, w, sc)

KeyboardWalksNoBreak(p_lower, w, sc) == WalkLoopNoBreak(1, p_lower, w, sc)

\* the loop with the fault of a deduction that is not floored at 0
RECURSIVE WalkLoopNoFloor(_, _, _, _)
WalkLoopNoFloor(i, p_lower, w, sc) ==
    IF i > Len(KEYBOARD_WALKS) THEN <<w, sc>>
    ELSE IF In(KEYBOARD_WALKS[i], p_lower) \/ In(Reverse(KEYBOARD_WALKS[i]), p_lower)
         THEN <<Append(w, WarnWalk), sc - 10>>
         ELSE WalkLoopNoFloor(i + 1, p_lower, w, sc)

KeyboardWalksNoFloor(p_lower, w, sc) == WalkLoopNoFloor(1, p_lower, w, sc)

KeyboardWalks(p_lower, w, sc) == WalkLoop(1, p_lower, w, sc)

\* 11. Keyboard walk patterns
Rule11 ==
    /\ pc = "r11"
    /\ warnings' = KeyboardWalks(Lower(password), warnings, score)[1]
    /\ score' = KeyboardWalks(Lower(password), warnings, score)[2]
    /\ pc' = "r12"
    /\ UNCHANGED <<password, errors, entropy, verdict>>

\* 12. Starts/ends with digit.  password[0] raises IndexError on an empty
\* string: validate_password ends there, without a verdict.
Rule12 ==
    /\ pc = "r12"
    /\ IF password = <<>>
       THEN /\ pc' = "IndexError"
            /\ UNCHANGED warnings
       ELSE /\ pc' = "r13"
            /\ warnings' = IF StrIsDigit(password[1]) \/ StrIsDigit(password[Len(password)])
                           THEN Append(warnings, WarnEdge) ELSE warnings
    /\ UNCHANGED <<password, errors, score, entropy, verdict>>

\* 13. Whitespace not allowed
Rule13 ==
    /\ pc = "r13"
    /\ errors' = IF Search(Whitespace, password) THEN Append(errors, ErrSpace) ELSE errors
    /\ pc' = "r14"
    /\ UNCHANGED <<password, warnings, score, entropy, verdict>>

Classes(s) ==
      (IF Search(Lowercase, s) THEN 1 ELSE 0)
    + (IF Search(Uppercase, s) THEN 1 ELSE 0)
    + (IF Search(Digits, s) THEN 1 ELSE 0)
    + (IF Search(Specials, s) THEN 1 ELSE 0)

\* 14. Only one character class
Rule14 ==
    /\ pc = "r14"
    /\ errors' = IF Classes(password) = 1 THEN Append(errors, ErrClasses) ELSE errors
    /\ pc' = "r15"
    /\ UNCHANGED <<password, warnings, score, entropy, verdict>>

\* EntropyBonus with the fault of a missing middle tier
EntropyBonusTwoTiers(e) ==
    IF e >= Bits(80) THEN 25 ELSE 5

EntropyBonus(e) ==
    IF e >= Bits(80) THEN 25 ELSE IF e >= Bits(60) THEN 15 ELSE 5

\* 15. Entropy check
Rule15 ==
    /\ pc = "r15"
    /\ entropy' = calculate_entropy(password)
    /\ errors' = IF entropy' < Bits(50) THEN Append(errors, ErrEntropy(entropy')) ELSE errors
    /\ score' = IF entropy' < Bits(50) THEN score ELSE score + EntropyBonus(entropy')
    /\ pc' = "return"
    /\ UNCHANGED <<password, warnings, verdict>>

\* Clamp score
Clamp(sc) == Min(100, Max(0, sc))

\* Strength with the fault ">" for ">=" at the Strong threshold
StrengthStrict(errs, sc) ==
    IF errs # <<>> THEN "Weak"
    ELSE IF sc >= 85 THEN "Very Strong"
    ELSE IF sc > 65 THEN "Strong"
    ELSE IF sc >= 45 THEN "Moderate"
    ELSE "Weak"

\* Strength label (the labels without their emoji)
Strength(errs, sc) ==
    IF errs # <<>> THEN "Weak"
    ELSE IF sc >= 85 THEN "Very Strong"
    ELSE IF sc >= 65 THEN "Strong"
    ELSE IF sc >= 45 THEN "Moderate"
    ELSE "Weak"

\* Verdict with the fault of valid taken from the warnings
VerdictValidFromWarnings(errs, warns, sc, e, label) ==
    [ valid    |-> Len(warns) = 0,
      score    |-> sc,
      strength |-> label,
      entropy  |-> Round2(e),
      errors   |-> errs,
      warnings |-> warns ]

\* Verdict with the fault of score taken from the entropy
VerdictScoreFromEntropy(errs, warns, sc, e, label) ==
    [ valid    |-> Len(errs) = 0,
      score    |-> Round2(e),
      strength |-> label,
      entropy  |-> Round2(e),
      errors   |-> errs,
      warnings |-> warns ]

\* the returned dictionary
Verdict(errs, warns, sc, e, label) ==
    [ valid    |-> Len(errs) = 0,
      score    |-> sc,
      strength |-> label,
      entropy  |-> Round2(e),
      errors   |-> errs,
      warnings |-> warns ]

\* clamp, label and return
Return ==
    /\ pc = "return"
    /\ score' = Clamp(score)
    /\ verdict' = Verdict(errors, warnings, score', entropy, Strength(errors, score'))
    /\ pc' = "done"
    /\ UNCHANGED <<password, errors, warnings, entropy>>

Next ==
    \/ Rule1 \/ Rule2 \/ Rule3 \/ Rule4 \/ Rule5 \/ Rule6 \/ Rule7 \/ Rule8
    \/ Rule9 \/ Rule10 \/ Rule11 \/ Rule12 \/ Rule13 \/ Rule14 \/ Rule15
    \/ Return

Spec == Init /\ [][Next]_vars

(***************************************************************************)
(* Properties                                                              *)
(***************************************************************************)
Has(list, m) == \E i \in 1..Len(list) : list[i] = m

Count(list, m) == Cardinality({i \in 1..Len(list) : list[i] = m})

Returned == pc = "done"

\* C1: validate_password is total: it never raises and returns a verdict for
\* every string; for the empty string the verdict has valid = false, score = 0.
C1_Total ==
    /\ pc # "IndexError"
    /\ (Returned /\ password = <<>>) => (~verdict.valid /\ verdict.score = 0)

\* C2: in every returned verdict, valid is true if and only if errors is empty.
C2_ValidIffNoErrors ==
    Returned => (verdict.valid <=> verdict.errors = <<>>)

C2_Witness ==
    Returned /\ verdict.valid /\ verdict.errors = <<>> /\ verdict.warnings # <<>>

\* C3: the score of every returned verdict is an integer from 0 to 100.
C3_ScoreInRange ==
    Returned => verdict.score \in 0..100

C3_Witness ==
    Returned /\ verdict.score = 100 /\ Len(password) = 128

\* the deltas of the scoring rules, rule by rule
LengthDelta(s) == IF Len(s) >= 16 THEN 20 ELSE IF Len(s) >= 12 THEN 10 ELSE 0

ClassDelta(s) ==
      (IF Search(Uppercase, s) THEN 10 ELSE 0)
    + (IF Search(Lowercase, s) THEN 10 ELSE 0)
    + (IF Search(Digits, s) THEN 10 ELSE 0)
    + (IF Search(Specials, s) THEN 15 ELSE 0)

MultiSpecialDelta(s) == IF FindAllCount(Specials, s) >= 2 THEN 5 ELSE 0

NoRepeatDelta(s) == IF HasRepeat(s) THEN 0 ELSE 5

Bonuses(s) == LengthDelta(s) + ClassDelta(s) + MultiSpecialDelta(s) + NoRepeatDelta(s)

WalkMatches(s) ==
    { k \in 1..Len(KEYBOARD_WALKS) :
        In(KEYBOARD_WALKS[k], Lower(s)) \/ In(Reverse(KEYBOARD_WALKS[k]), Lower(s)) }

Deductions(s) ==
      (IF has_sequential(Lower(s), 1) \/ has_sequential(s, -1) THEN 5 ELSE 0)
    + (IF WalkMatches(s) # {} THEN 10 ELSE 0)

EntropyDelta(s) ==
    IF calculate_entropy(s) < Bits(50) THEN 0
    ELSE IF calculate_entropy(s) < Bits(60) THEN 5
    ELSE IF calculate_entropy(s) < Bits(80) THEN 15
    ELSE 25

ClampOnce(n) == IF n < 0 THEN 0 ELSE IF n > 100 THEN 100 ELSE n

\* C4 (as claimed): the final score is the plain sum of the deltas of all
\* triggered scoring rules, clamped once to [0,100] at the end.
C4_PlainSumClamped ==
    Returned =>
        verdict.score = ClampOnce(Bonuses(password) - Deductions(password)
                                  + EntropyDelta(password))

\* C4 (amended): the deductions of rules 10 and 11 are floored at 0 before
\* the entropy bonus is added: the final score is the sum of the deltas of
\* rules 1-11 floored at 0, plus the entropy bonus, capped at 100.
C4_FlooredSum ==
    Returned =>
        verdict.score = ClampOnce(Max(0, Bonuses(password) - Deductions(password))
                                  + EntropyDelta(password))

C4_Witness ==
    /\ Returned
    /\ Bonuses(password) < Deductions(password)
    /\ EntropyDelta(password) > 0

\* the number of classes among ASCII lowercase, uppercase, digit, special
AsciiDigits == 48..57

ClassesPresent(s) ==
    Cardinality({ k \in 1..4 :
        \/ k = 1 /\ Search(Lowercase, s)
        \/ k = 2 /\ Search(Uppercase, s)
        \/ k = 3 /\ Search(AsciiDigits, s)
        \/ k = 4 /\ Search(Specials, s) })

\* C5: errors holds the class-diversity error if and only if fewer than 3 of
\* the 4 character classes are present in the password.
C5_ClassDiversity ==
    Returned => (Has(verdict.errors, ErrClasses) <=> ClassesPresent(password) < 3)

\* C6: calculate_entropy(password) is 0.0 if and only if the password holds
\* no ASCII lowercase letter, uppercase letter, digit or special character.
C6_EntropyZeroIff ==
    pc \in {"return", "done"} => (entropy = 0 <=> ClassesPresent(password) = 0)

\* C7: the strength label is Weak when errors is non-empty, and otherwise
\* Very Strong from 85, Strong from 65, Moderate from 45, Weak below.
C7_StrengthLabel ==
    Returned =>
        /\ verdict.errors # <<>> => verdict.strength = "Weak"
        /\ verdict.errors = <<>> =>
            /\ verdict.score >= 85 => verdict.strength = "Very Strong"
            /\ verdict.score \in 65..84 => verdict.strength = "Strong"
            /\ verdict.score \in 45..64 => verdict.strength = "Moderate"
            /\ verdict.score < 45 => verdict.strength = "Weak"

C7_Witness ==
    Returned /\ verdict.errors = <<>> /\ verdict.score = 65 /\ verdict.strength = "Strong"

\* C8: rule 11 appends the keyboard-walk warning and takes 10 from the score
\* (floored at 0) exactly once if the lowercased password contains an entry of
\* KEYBOARD_WALKS or a reversed entry, and does nothing otherwise; a verdict
\* holds the warning once, or not at all.
C8_KeyboardWalkOnce ==
    /\ [][pc = "r11" =>
            IF WalkMatches(password) # {}
            THEN warnings' = Append(warnings, WarnWalk) /\ score' = Max(0, score - 10)
            ELSE warnings' = warnings /\ score' = score]_vars
    /\ [](Returned =>
            Count(verdict.warnings, WarnWalk) = IF WalkMatches(password) # {} THEN 1 ELSE 0)

C8_Witness ==
    /\ pc = "r12"
    /\ Cardinality(WalkMatches(password)) >= 2
    /\ Count(warnings, WarnWalk) = 1

\* C9: errors holds the too-short error if and only if the length is below
\* 12, and the too-long error if and only if the length is above 128.
C9_LengthRules ==
    Returned =>
        /\ Has(verdict.errors, ErrShort) <=> Len(password) < 12
        /\ Has(verdict.errors, ErrLong) <=> Len(password) > 128

C9_Witness ==
    Returned /\ Len(password) = 12 /\ ~Has(verdict.errors, ErrShort) /\ verdict.valid

\* C10: a valid verdict has a score of at least 60, and the strength label
\* is Weak if and only if the verdict is not valid.
C10_ValidAtLeast60 ==
    Returned =>
        /\ verdict.valid => verdict.score >= 60
        /\ verdict.strength = "Weak" <=> ~verdict.valid

C10_Witness ==
    Returned /\ verdict.valid /\ verdict.score = 60

====
